---- MODULE Spec2Model ----
(***************************************************************************)
(* Car-park queueing simulation (src/AppCpp/carpark_queueing_cpp.cpp).     *)
(*                                                                         *)
(* modelrun(arrivalrate, servicetime, spaces) is modelled as a state       *)
(* machine: one step per iteration of the tick loop, then the cumulative   *)
(* sum, the rescaling to percentages, and one step per printed percentile  *)
(* line.  The random draw of every tick is a nondeterministic choice.      *)
(*                                                                         *)
(* Time is scaled.  The code counts seconds with 3600 to the hour, probes  *)
(* every 10 hours after a warm-up of 100 hours (10 probe periods), stops   *)
(* at 3000 hours (300 probe periods) and bounds the loop by 10000 hours.   *)
(* The model keeps that structure (warm-up and cap are whole numbers of    *)
(* probe periods, the cap lies strictly inside the loop bound) with fewer  *)
(* ticks per hour and fewer periods.  The length of the two histograms     *)
(* (200 plus a term that is 0 for servicetime < 600) is scaled with it.    *)
(*                                                                         *)
(* Doubles: the queued ratio is kept as the exact pair <<num, den>>, with  *)
(* den = 0 standing for the NaN that 0.0/0 yields; at the sizes explored   *)
(* two different ratios differ by far more than 1e-5 and the rounding of   *)
(* 100*c/d is exact, so exact arithmetic gives what the doubles give.      *)
(***************************************************************************)
EXTENDS Integers, Sequences, FiniteSets, TLC

VARIABLES
    arrivalrate, servicetime, spaces,   \* the three parameters of modelrun
    secsPerHour,                        \* the literal 3600 of lines 43-46, 95, 98 (scaled)
    i,                                  \* loop counter
    pc,                                 \* position in modelrun
    count_arrivals, carsqueued, queue, queuetime,
    carsparked_q,                       \* remaining times, front = oldest
    count_carsparked_q, count_carsqueued,   \* the two histograms / tables
    arrival,                            \* last draw
    queuetest,                          \* ratio stored by the last probe
    hours, cyclecount,
    verdict,                            \* which of the two messages of lines 108-112
    out                                 \* the percentile lines printed so far

vars == <<arrivalrate, servicetime, spaces, secsPerHour, i, pc, count_arrivals,
          carsqueued, queue, queuetime, carsparked_q, count_carsparked_q,
          count_carsqueued, arrival, queuetest, hours, cyclecount, verdict, out>>

----------------------------------------------------------------------------
(* Bounds of the model *)

LongTicksPerHour == 20  \* ticks per hour in SpecLong (3600 in the code; Spec has 1)
ProbeHours == 2         \* hours between probes (10 in the code)
WarmProbes == 1         \* warm-up, in probe periods (10 in the code)
CapProbes == 6          \* cap, in probe periods (300 in the code)
HistBase == 2           \* constant term of the histogram length (200 in the code)
MaxService == 3         \* largest servicetime explored
MaxSpaces == 3          \* largest spaces explored
MaxTable == 2           \* longest table explored by SpecLookup

(* Program constants *)

DrawMax == 3600         \* uniform_int_distribution<int>(1, 3600)
ServiceDiv == 600       \* servicetime / 600 in the histogram length
Epsilon == 100000       \* 1e-5, as its reciprocal

WarmHours == WarmProbes * ProbeHours
CapHours == CapProbes * ProbeHours
InitialCycleCount == CapHours + ProbeHours
percentiles == <<10, 20, 30, 40, 50, 60, 70, 80, 90, 95, 98, 99>>

Rates == {0, 100, DrawMax}
TableValues == {0, 10, 98, 100}

----------------------------------------------------------------------------
(* Helpers *)

Max(a, b) == IF a >= b THEN a ELSE b

Abs(x) == IF x >= 0 THEN x ELSE -x

Zeros(n) == [k \in 1..n |-> 0]

HistLen(ar, st) == ar * (st \div ServiceDiv) + HistBase

(* The draws that matter: the largest draw that is an arrival and the       *)
(* smallest that is not, kept inside the range of the distribution.         *)
Draws == {d \in {arrivalrate, arrivalrate + 1} : d >= 1 /\ d <= DrawMax}

(* Mutant of Ratio: a ratio of 0 reported when there are no arrivals *)
Ratio_zeroguard(cq, ca) == IF ca = 0 THEN <<0, 1>> ELSE <<cq, ca>>

(* static_cast<double>(carsqueued) / count_arrivals; den = 0 is NaN *)
Ratio(cq, ca) == <<cq, ca>>

IsNaN(r) == r[2] = 0

(* Mutant of Close: the difference compared without abs *)
Close_noabs(a, b) ==
    /\ ~IsNaN(a)
    /\ ~IsNaN(b)
    /\ (a[1] * b[2] - b[1] * a[2]) * Epsilon < a[2] * b[2]

(* abs(a - b) < 1e-5 on doubles: false as soon as one side is NaN *)
Close(a, b) ==
    /\ ~IsNaN(a)
    /\ ~IsNaN(b)
    /\ Abs(a[1] * b[2] - b[1] * a[2]) * Epsilon < a[2] * b[2]

(* Mutant of IsProbe: the warm-up compared with >= *)
IsProbe_ge(t) == t >= secsPerHour * WarmHours /\ t % (ProbeHours * secsPerHour) = 0

IsProbe(t) == t > secsPerHour * WarmHours /\ t % (ProbeHours * secsPerHour) = 0

(* Mutant of StopNow: the cap test left out *)
StopNow_nocap(t) == Close(queuetest, Ratio(carsqueued, count_arrivals))

StopNow(t) ==
    \/ Close(queuetest, Ratio(carsqueued, count_arrivals))
    \/ t = CapHours * secsPerHour

(* index written by the Sample step for the occupancy histogram *)
SampleIndex(cars) == Max(Len(cars) - 1, 0)

InBounds(hist, idx) == idx >= 0 /\ idx < Len(hist)

(* hist[idx]++ ; a write outside the vector leaves the vector as it was *)
Bump(hist, idx) ==
    IF InBounds(hist, idx) THEN [hist EXCEPT ![idx + 1] = @ + 1] ELSE hist

(* Mutant of Age: the front car is not erased when its time reaches 0 *)
Age_noerase(cars, q, st) ==
    IF cars = <<>> THEN [cars |-> cars, queue |-> q]
    ELSE LET dec == [k \in 1..Len(cars) |-> cars[k] - 1] IN
         IF dec[1] = 0 /\ q > 0
         THEN [cars |-> Append(dec, st), queue |-> q - 1]
         ELSE [cars |-> dec, queue |-> q]

(* Mutant of Age: the queue is decremented without the test queue > 0 *)
Age_noguard(cars, q, st) ==
    IF cars = <<>> THEN [cars |-> cars, queue |-> q]
    ELSE LET dec == [k \in 1..Len(cars) |-> cars[k] - 1] IN
         IF dec[1] = 0
         THEN [cars |-> Append(Tail(dec), st), queue |-> q - 1]
         ELSE [cars |-> dec, queue |-> q]

(* Mutant of Age: a waiting car is admitted whether or not a car has left *)
Age_admitalways(cars, q, st) ==
    IF cars = <<>> THEN [cars |-> cars, queue |-> q]
    ELSE LET dec == [k \in 1..Len(cars) |-> cars[k] - 1]
             rest == IF dec[1] = 0 THEN Tail(dec) ELSE dec
         IN
         IF q > 0
         THEN [cars |-> Append(rest, st), queue |-> q - 1]
         ELSE [cars |-> rest, queue |-> q]

(* Mutant of Age: the front car tested before the times are reduced *)
Age_checkfirst(cars, q, st) ==
    IF cars = <<>> THEN [cars |-> cars, queue |-> q]
    ELSE LET dec == [k \in 1..Len(cars) |-> cars[k] - 1] IN
         IF cars[1] = 0
         THEN IF q > 0
              THEN [cars |-> Append(Tail(dec), st), queue |-> q - 1]
              ELSE [cars |-> Tail(dec), queue |-> q]
         ELSE [cars |-> dec, queue |-> q]

(* Mutant of Age: the freed space is not given to a waiting car *)
Age_noadmit(cars, q, st) ==
    IF cars = <<>> THEN [cars |-> cars, queue |-> q]
    ELSE LET dec == [k \in 1..Len(cars) |-> cars[k] - 1] IN
         IF dec[1] = 0
         THEN [cars |-> Tail(dec), queue |-> q]
         ELSE [cars |-> dec, queue |-> q]

(* Age step, lines 59-70 *)
Age(cars, q, st) ==
    IF cars = <<>> THEN [cars |-> cars, queue |-> q]
    ELSE LET dec == [k \in 1..Len(cars) |-> cars[k] - 1] IN
         IF dec[1] = 0
         THEN IF q > 0
              THEN [cars |-> Append(Tail(dec), st), queue |-> q - 1]
              ELSE [cars |-> Tail(dec), queue |-> q]
         ELSE [cars |-> dec, queue |-> q]

(* Mutant of Arrive: the admission test made <=, so that the lot fills     *)
(* past the level at which arrivals are queued                             *)
Arrive_le(cars, q, cq, st, sp) ==
    IF Len(cars) - 1 <= sp
    THEN [cars |-> Append(cars, st), queue |-> q, carsqueued |-> cq]
    ELSE IF Len(cars) - 1 = sp
         THEN [cars |-> cars, queue |-> q + 1, carsqueued |-> cq + 1]
         ELSE [cars |-> cars, queue |-> q, carsqueued |-> cq]

(* Mutant of Arrive: a queued arrival is not counted in carsqueued *)
Arrive_nocount(cars, q, cq, st, sp) ==
    IF Len(cars) - 1 < sp
    THEN [cars |-> Append(cars, st), queue |-> q, carsqueued |-> cq]
    ELSE IF Len(cars) - 1 = sp
         THEN [cars |-> cars, queue |-> q + 1, carsqueued |-> cq]
         ELSE [cars |-> cars, queue |-> q, carsqueued |-> cq]

(* Arrive step, lines 74-84, for a draw that is an arrival *)
Arrive(cars, q, cq, st, sp) ==
    IF Len(cars) - 1 < sp
    THEN [cars |-> Append(cars, st), queue |-> q, carsqueued |-> cq]
    ELSE IF Len(cars) - 1 = sp
         THEN [cars |-> cars, queue |-> q + 1, carsqueued |-> cq + 1]
         ELSE [cars |-> cars, queue |-> q, carsqueued |-> cq]

(* std::partial_sum *)
RECURSIVE SumTo(_, _)
SumTo(s, n) == IF n = 0 THEN 0 ELSE SumTo(s, n - 1) + s[n]

PartialSum(s) == [k \in 1..Len(s) |-> SumTo(s, k)]

(* Mutant of RoundPct: truncation in place of round *)
RoundPct_trunc(item, den) == (100 * item) \div den

(* static_cast<int>(round(100.0 * item / den)), item >= 0, den > 0 *)
RoundPct(item, den) == (200 * item + den) \div (2 * den)

Rescale(s, den) == [k \in 1..Len(s) |-> RoundPct(s[k], den)]

(* percentageoftime, lines 12-19; C++ indices are 0-based *)
RECURSIVE ScanFrom(_, _, _)
ScanFrom(percent, list, index) ==
    IF index < Len(list)
    THEN IF list[index + 1] >= percent
         THEN index
         ELSE ScanFrom(percent, list, index + 1)
    ELSE -1

(* Mutants of percentageoftime: the comparison turned round, and made strict *)
RECURSIVE ScanFrom_le(_, _, _)
ScanFrom_le(percent, list, index) ==
    IF index < Len(list)
    THEN IF list[index + 1] <= percent
         THEN index
         ELSE ScanFrom_le(percent, list, index + 1)
    ELSE -1

percentageoftime_le(percent, list) == ScanFrom_le(percent, list, 0)

RECURSIVE ScanFrom_gt(_, _, _)
ScanFrom_gt(percent, list, index) ==
    IF index < Len(list)
    THEN IF list[index + 1] > percent
         THEN index
         ELSE ScanFrom_gt(percent, list, index + 1)
    ELSE -1

percentageoftime_gt(percent, list) == ScanFrom_gt(percent, list, 0)

percentageoftime(percent, list) == ScanFrom(percent, list, 0)

----------------------------------------------------------------------------
(* State after construction, lines 25-36 *)

InitRun(ars, tph) ==
    /\ arrivalrate \in ars
    /\ servicetime \in 1..MaxService
    /\ spaces \in 1..MaxSpaces
    /\ secsPerHour = tph
    /\ i = 1
    /\ pc = "loop"
    /\ count_arrivals = 0
    /\ carsqueued = 0
    /\ queue = 0
    /\ queuetime = 0
    /\ carsparked_q = <<>>
    /\ count_carsparked_q = Zeros(HistLen(arrivalrate, servicetime))
    /\ count_carsqueued = Zeros(HistLen(arrivalrate, servicetime))
    /\ arrival = 0
    /\ queuetest = <<0, 1>>
    /\ hours = <<0, 1>>
    /\ cyclecount = InitialCycleCount
    /\ verdict = "none"
    /\ out = <<>>

(* In Spec an hour is one tick *)
Init == InitRun(Rates, 1)

(* One iteration of the for loop, lines 43-85 *)
LoopIteration ==
    /\ pc = "loop"
    /\ IF i > cyclecount * secsPerHour
       THEN /\ pc' = "aggregate"
            /\ UNCHANGED <<i, count_arrivals, carsqueued, queue, queuetime,
                           carsparked_q, count_carsparked_q, count_carsqueued,
                           arrival, queuetest, hours>>
       ELSE IF IsProbe(i) /\ StopNow(i)
       THEN /\ hours' = <<i, secsPerHour>>
            /\ pc' = "aggregate"
            /\ UNCHANGED <<i, count_arrivals, carsqueued, queue, queuetime,
                           carsparked_q, count_carsparked_q, count_carsqueued,
                           arrival, queuetest>>
       ELSE LET pidx == SampleIndex(carsparked_q)
                safe == InBounds(count_carsparked_q, pidx)
                          /\ InBounds(count_carsqueued, queue)
            IN
            \E draw \in Draws, outcome \in (IF safe THEN {"ok"} ELSE {"lost", "crash"}) :
               /\ queuetest' = IF IsProbe(i) THEN Ratio(carsqueued, count_arrivals)
                                             ELSE queuetest
               /\ hours' = hours
               /\ IF outcome = "crash"
                  THEN /\ pc' = "crashed"
                       /\ UNCHANGED <<i, count_arrivals, carsqueued, queue, queuetime,
                                      carsparked_q, count_carsparked_q,
                                      count_carsqueued, arrival>>
                  ELSE LET aged == Age(carsparked_q, queue, servicetime)
                           arr == IF draw <= arrivalrate
                                  THEN Arrive(aged.cars, aged.queue, carsqueued,
                                              servicetime, spaces)
                                  ELSE [cars |-> aged.cars, queue |-> aged.queue,
                                        carsqueued |-> carsqueued]
                       IN
                       /\ count_carsparked_q' = Bump(count_carsparked_q, pidx)
                       /\ count_carsqueued' = Bump(count_carsqueued, queue)
                       /\ queuetime' = queuetime + queue
                       /\ arrival' = draw
                       /\ count_arrivals' = IF draw <= arrivalrate
                                            THEN count_arrivals + 1
                                            ELSE count_arrivals
                       /\ carsparked_q' = arr.cars
                       /\ queue' = arr.queue
                       /\ carsqueued' = arr.carsqueued
                       /\ i' = i + 1
                       /\ pc' = "loop"
    /\ UNCHANGED <<arrivalrate, servicetime, spaces, secsPerHour, cyclecount,
                   verdict, out>>

(* Lines 87-91: cyclecount and the two partial sums *)
Cumulate ==
    /\ pc = "aggregate"
    /\ cyclecount' = hours[1] \div hours[2]
    /\ count_carsqueued' = PartialSum(count_carsqueued)
    /\ count_carsparked_q' = PartialSum(count_carsparked_q)
    /\ pc' = "rescale"
    /\ UNCHANGED <<arrivalrate, servicetime, spaces, secsPerHour, i,
                   count_arrivals, carsqueued, queue, queuetime, carsparked_q,
                   arrival, queuetest, hours, verdict, out>>

(* Lines 93-112: percentages and the stability message *)
Percentages ==
    /\ pc = "rescale"
    /\ IF cyclecount > 0
       THEN /\ count_carsqueued' = Rescale(count_carsqueued, cyclecount * secsPerHour)
            /\ count_carsparked_q' = Rescale(count_carsparked_q, cyclecount * secsPerHour)
       ELSE UNCHANGED <<count_carsqueued, count_carsparked_q>>
    /\ verdict' = IF hours[1] = CapHours * hours[2] THEN "cap" ELSE "stable"
    /\ pc' = "report"
    /\ UNCHANGED <<arrivalrate, servicetime, spaces, secsPerHour, i,
                   count_arrivals, carsqueued, queue, queuetime, carsparked_q,
                   arrival, queuetest, hours, cyclecount, out>>

(* One iteration of the loop of lines 127-131 *)
ReportLine ==
    /\ pc = "report"
    /\ LET value == percentiles[Len(out) + 1] IN
       out' = Append(out, [value |-> value,
                           parked |-> percentageoftime(value, count_carsparked_q),
                           queued |-> percentageoftime(value, count_carsqueued)])
    /\ pc' = IF Len(out) + 1 = Len(percentiles) THEN "done" ELSE "report"
    /\ UNCHANGED <<arrivalrate, servicetime, spaces, secsPerHour, i,
                   count_arrivals, carsqueued, queue, queuetime, carsparked_q,
                   count_carsparked_q, count_carsqueued, arrival, queuetest,
                   hours, cyclecount, verdict>>

Next == LoopIteration \/ Cumulate \/ Percentages \/ ReportLine

Spec == Init /\ [][Next]_vars

(* Runs without arrivals at a scale where the cap lies beyond 200 ticks *)
InitLong == InitRun({0}, LongTicksPerHour)

SpecLong == InitLong /\ [][Next]_vars


(* percentageoftime applied to arbitrary tables: the state at the start of *)
(* the loop of lines 127-131, with both tables drawn from Tables           *)
Tables == UNION {[1..n -> TableValues] : n \in 0..MaxTable}

InitLookup ==
    /\ arrivalrate = 0
    /\ servicetime = 1
    /\ spaces = 1
    /\ secsPerHour = 1
    /\ i = 1
    /\ pc = "report"
    /\ count_arrivals = 0
    /\ carsqueued = 0
    /\ queue = 0
    /\ queuetime = 0
    /\ carsparked_q = <<>>
    /\ count_carsparked_q \in Tables
    /\ count_carsqueued \in Tables
    /\ arrival = 0
    /\ queuetest = <<0, 1>>
    /\ hours = <<0, 1>>
    /\ cyclecount = 0
    /\ verdict = "none"
    /\ out = <<>>

NextLookup == ReportLine

SpecLookup == InitLookup /\ [][NextLookup]_vars

----------------------------------------------------------------------------
(* Claims *)

CapTicks == CapHours * secsPerHour

NonDecreasing(s) == \A k \in 1..(Len(s) - 1) : s[k] <= s[k + 1]

(* C1: the number of parked cars never exceeds spaces. *)
CapacityNeverExceeded == Len(carsparked_q) <= spaces

(* C2: on a tick with an arrival, count_arrivals grows by one and the car  *)
(* is admitted iff fewer than spaces cars are parked after the Age step;   *)
(* otherwise queue and carsqueued grow by one and the list is unchanged.   *)
ArriveClaim ==
    (pc = "loop" /\ i' = i + 1 /\ arrival' <= arrivalrate) =>
        LET aged == Age(carsparked_q, queue, servicetime) IN
        /\ count_arrivals' = count_arrivals + 1
        /\ IF Len(aged.cars) < spaces
           THEN /\ carsparked_q' = Append(aged.cars, servicetime)
                /\ queue' = aged.queue
                /\ carsqueued' = carsqueued
           ELSE /\ carsparked_q' = aged.cars
                /\ queue' = aged.queue + 1
                /\ carsqueued' = carsqueued + 1

ArriveGatedBySpaces == [][ArriveClaim]_vars

(* C3: the loop counter never passes the cap tick, and a run that has left *)
(* the loop left it through the break of a probe, at the tick it recorded  *)
(* in hours.                                                               *)
StopsByCap ==
    /\ i <= CapTicks
    /\ (pc \in {"aggregate", "rescale", "report", "done"} => hours = <<i, secsPerHour>>)

StopsByCapWitness ==
    /\ pc = "done"
    /\ i = CapTicks
    /\ count_arrivals > 0
    /\ ~Close(queuetest, Ratio(carsqueued, count_arrivals))

(* C4: a probe before the cap with count_arrivals = 0 does not stop the    *)
(* run (it stores the undefined ratio and the tick goes on), and a run     *)
(* with arrivalrate = 0 leaves the loop only at the cap tick, reported as  *)
(* cap reached.                                                            *)
ZeroArrivalProbeStep ==
    (pc = "loop" /\ IsProbe(i) /\ count_arrivals = 0 /\ i # CapTicks) =>
        (pc' = "loop" /\ i' = i + 1 /\ IsNaN(queuetest'))

ZeroArrivalNeverStable ==
    /\ [][ZeroArrivalProbeStep]_vars
    /\ [](arrivalrate = 0 /\ pc # "loop" =>
            pc # "crashed" /\ i = CapTicks /\ verdict \in {"none", "cap"})

ZeroArrivalWitness ==
    /\ arrivalrate = 0
    /\ pc = "done"
    /\ verdict = "cap"
    /\ IsNaN(queuetest)

(* C5: with arrivalrate = 0 every tick is sampled at index 0 of both       *)
(* histograms; after aggregation index 0 of the occupancy table holds 100  *)
(* and every printed percentile line reports index 0 for both tables.      *)
ZeroArrivalTables ==
    arrivalrate = 0 =>
        /\ carsparked_q = <<>>
        /\ queue = 0
        /\ (pc = "loop" =>
               /\ count_carsparked_q[1] = i - 1
               /\ count_carsqueued[1] = i - 1
               /\ \A k \in 2..Len(count_carsparked_q) :
                      count_carsparked_q[k] = 0 /\ count_carsqueued[k] = 0)
        /\ (pc \in {"report", "done"} =>
               /\ count_carsparked_q[1] = 100
               /\ \A k \in 1..Len(out) : out[k].parked = 0 /\ out[k].queued = 0)

ZeroArrivalTablesWitness ==
    /\ arrivalrate = 0
    /\ pc = "done"
    /\ Len(out) = Len(percentiles)
    /\ out[Len(out)].value = 99

(* C6: when spaces >= servicetime no car is ever queued. *)
NoQueueWhenRoomy ==
    spaces >= servicetime => queue = 0 /\ carsqueued = 0

NoQueueWhenRoomyWitness ==
    /\ spaces >= servicetime
    /\ servicetime = MaxService
    /\ Len(carsparked_q) = servicetime
    /\ count_arrivals > servicetime

(* C7: after the cumulative sums and before the rescaling, both histograms *)
(* are non-decreasing and their last entry is cyclecount * 3600, the       *)
(* number of ticks the percentages are divided by.                         *)
PrefixSumTotals ==
    pc = "rescale" =>
        /\ NonDecreasing(count_carsparked_q)
        /\ NonDecreasing(count_carsqueued)
        /\ count_carsparked_q[Len(count_carsparked_q)] = cyclecount * secsPerHour
        /\ count_carsqueued[Len(count_carsqueued)] = cyclecount * secsPerHour

(* C8 as claimed: for two printed lines with percentiles p1 <= p2 the      *)
(* result for p1 is at most the result for p2, found or not.               *)
LookupMonotone ==
    \A j \in 1..Len(out) : \A k \in j..Len(out) :
        /\ out[j].parked <= out[k].parked
        /\ out[j].queued <= out[k].queued

(* C8 amended: if the lookup for p2 finds an index, the lookup for p1      *)
(* finds an index that is no larger; if the lookup for p1 returns -1, so   *)
(* does the lookup for p2.                                                 *)
MonotoneWhereFound(r1, r2) ==
    /\ (r2 # -1 => r1 # -1 /\ r1 <= r2)
    /\ (r1 = -1 => r2 = -1)

LookupMonotoneWhereFound ==
    \A j \in 1..Len(out) : \A k \in j..Len(out) :
        /\ MonotoneWhereFound(out[j].parked, out[k].parked)
        /\ MonotoneWhereFound(out[j].queued, out[k].queued)

LookupMonotoneWitness ==
    /\ pc = "done"
    /\ \E j \in 1..Len(out) : \E k \in j..Len(out) :
          /\ out[j].parked >= 0
          /\ out[j].parked < out[k].parked
    /\ \E j \in 1..Len(out) : out[j].queued # -1 /\ out[Len(out)].queued = -1

(* C9: a lookup returns the smallest 0-based index whose entry is >= p     *)
(* when there is one, and otherwise -1, which is no index of the table.    *)
IsFirstAtOrAbove(r, p, table) ==
    IF \E k \in 1..Len(table) : table[k] >= p
    THEN /\ r \in 0..(Len(table) - 1)
         /\ table[r + 1] >= p
         /\ \A m \in 1..r : table[m] < p
    ELSE r = -1 /\ r \notin 0..(Len(table) - 1)

QueueDecrementStep ==
    queue' < queue =>
        /\ pc = "loop"
        /\ queue > 0
        /\ queue' = queue - 1
        /\ carsparked_q # <<>>
        /\ carsparked_q[1] = 1

QueueNeverNegative == [](queue >= 0) /\ [][QueueDecrementStep]_vars

QueueNeverNegativeWitness ==
    /\ pc = "loop"
    /\ queue = 0
    /\ carsqueued > 0
    /\ count_arrivals > carsqueued

(* C11: in an executed tick at most one car leaves, and only the front    *)
(* car whose remaining time was 1; the cars that stay keep their order    *)
(* and lose one tick.  One waiting car is admitted, with servicetime at   *)
(* the back, exactly when the front car leaves and queue > 0, so such a   *)
(* tick without an arrival keeps the number of parked cars.               *)
TickExecuted == pc = "loop" /\ pc' = "loop" /\ i' = i + 1

FrontLeaves == carsparked_q # <<>> /\ carsparked_q[1] = 1

AgeStepClaim ==
    TickExecuted =>
        LET n == Len(carsparked_q)
            d == IF FrontLeaves THEN 1 ELSE 0
            a == IF FrontLeaves /\ queue > 0 THEN 1 ELSE 0
            arrived == IF arrival' <= arrivalrate THEN 1 ELSE 0
            n2 == Len(carsparked_q')
        IN
        /\ n2 >= n - d
        /\ \A k \in 1..(n - d) : carsparked_q'[k] = carsparked_q[k + d] - 1
        /\ \A k \in (n - d + 1)..n2 : carsparked_q'[k] = servicetime
        /\ n2 - (n - d) <= a + arrived
        /\ queue' >= queue - a
        /\ (arrived = 0 => n2 = n - d + a /\ queue' = queue - a)

AgeStepOneDeparture == [][AgeStepClaim]_vars

AgeStepOneDepartureWitness ==
    /\ pc = "loop"
    /\ queue > 0
    /\ carsqueued > queue
    /\ arrival > arrivalrate
    /\ carsparked_q[Len(carsparked_q)] = servicetime

(* C12: a probe before the cap stops the run iff count_arrivals > 0 and   *)
(* the current ratio carsqueued / count_arrivals lies within 1e-5 of the  *)
(* ratio stored by the previous probe (0 before the first probe).  A      *)
(* probe that stops changes nothing but hours; one that does not stop     *)
(* stores the current ratio, and the tick then samples the occupancy and  *)
(* the queue as they were before the probe.                               *)
FirstProbeTick == (WarmHours + ProbeHours) * secsPerHour

RatioStable ==
    /\ count_arrivals > 0
    /\ queuetest[2] # 0
    /\ Abs(carsqueued * queuetest[2] - queuetest[1] * count_arrivals) * Epsilon
           < count_arrivals * queuetest[2]

ProbeStepClaim ==
    (pc = "loop" /\ IsProbe(i) /\ i < CapTicks) =>
        IF RatioStable
        THEN /\ pc' = "aggregate"
             /\ hours' = <<i, secsPerHour>>
             /\ UNCHANGED <<i, queuetest, count_arrivals, carsqueued, queue,
                            queuetime, carsparked_q, count_carsparked_q,
                            count_carsqueued>>
        ELSE /\ pc' \in {"loop", "crashed"}
             /\ queuetest' = <<carsqueued, count_arrivals>>
             /\ hours' = hours
             /\ (pc' = "loop" =>
                    /\ i' = i + 1
                    /\ queuetime' = queuetime + queue
                    /\ count_carsqueued' = Bump(count_carsqueued, queue)
                    /\ count_carsparked_q' =
                           Bump(count_carsparked_q, SampleIndex(carsparked_q)))

StabilityTransition ==
    /\ [][ProbeStepClaim]_vars
    /\ [](pc = "loop" /\ i <= FirstProbeTick => queuetest = <<0, 1>>)

StabilityTransitionWitness ==
    /\ pc = "done"
    /\ verdict = "stable"
    /\ carsqueued > 0
    /\ i > FirstProbeTick
    /\ i < CapTicks

(* C13: the ratio is probed exactly at the ticks that are multiples of    *)
(* the probe period and lie beyond the warm-up; the loop is left at no    *)
(* other tick, and the recorded hour count is the stopping tick divided   *)
(* by the ticks per hour: a multiple of the probe period between the      *)
(* first probe and the cap.                                               *)
OnSchedule(t) ==
    /\ t % (ProbeHours * secsPerHour) = 0
    /\ t > WarmHours * secsPerHour

ProbeScheduleStep ==
    /\ (queuetest' # queuetest \/ (pc = "loop" /\ pc' = "aggregate")) => OnSchedule(i)
    /\ (pc = "loop" /\ OnSchedule(i)) =>
           (pc' = "aggregate" \/ queuetest' = <<carsqueued, count_arrivals>>)

Finished == pc \in {"aggregate", "rescale", "report", "done"}

ProbeSchedule ==
    /\ [][ProbeScheduleStep]_vars
    /\ [](Finished =>
            /\ hours = <<i, secsPerHour>>
            /\ i % secsPerHour = 0
            /\ (i \div secsPerHour) % ProbeHours = 0
            /\ (i \div secsPerHour) >= WarmHours + ProbeHours
            /\ (i \div secsPerHour) <= CapHours
            /\ (pc # "aggregate" => cyclecount = i \div secsPerHour))

ProbeScheduleWitness ==
    /\ pc = "done"
    /\ cyclecount > WarmHours + ProbeHours
    /\ cyclecount < CapHours
    /\ count_arrivals > 0

(* C14: a finished run carries the cap message iff it stopped at the cap  *)
(* tick with the stability test failing at that probe; a run whose        *)
(* stability test passed at its stopping probe carries the converged      *)
(* message.                                                               *)
CapVerdict ==
    pc \in {"report", "done"} =>
        /\ (verdict = "cap") = (i = CapTicks /\ ~RatioStable)
        /\ (RatioStable => verdict = "stable")

(* C15: on every tick that is executed, both indices written by the      *)
(* Sample step lie below the histogram length                             *)
(* arrivalrate * (servicetime / 600) + 200 (scaled: HistBase).            *)
TickRuns ==
    /\ pc = "loop"
    /\ i <= cyclecount * secsPerHour
    /\ ~(IsProbe(i) /\ StopNow(i))

SampleIndexInBounds ==
    TickRuns =>
        /\ Max(Len(carsparked_q) - 1, 0) < arrivalrate * (servicetime \div ServiceDiv) + HistBase
        /\ queue < arrivalrate * (servicetime \div ServiceDiv) + HistBase
        /\ Len(count_carsparked_q) = arrivalrate * (servicetime \div ServiceDiv) + HistBase
        /\ Len(count_carsqueued) = arrivalrate * (servicetime \div ServiceDiv) + HistBase

(* C16: every executed tick adds 1 to exactly one occupancy bucket, index  *)
(* max(len - 1, 0), and to exactly one queue bucket, index queue, both     *)
(* taken before the Age and Arrive steps, and adds queue to queuetime; no  *)
(* other bucket changes, so after t executed ticks each histogram sums to  *)
(* t.                                                                      *)
OneBucketMore(h, h2, idx) ==
    /\ Len(h2) = Len(h)
    /\ idx + 1 \in 1..Len(h)
    /\ \A k \in 1..Len(h) : h2[k] = IF k = idx + 1 THEN h[k] + 1 ELSE h[k]

SampleStepClaim ==
    TickExecuted =>
        /\ OneBucketMore(count_carsparked_q, count_carsparked_q',
                         Max(Len(carsparked_q) - 1, 0))
        /\ OneBucketMore(count_carsqueued, count_carsqueued', queue)
        /\ queuetime' = queuetime + queue

SampleStep ==
    /\ [][SampleStepClaim]_vars
    /\ [](pc = "loop" =>
            /\ SumTo(count_carsparked_q, Len(count_carsparked_q)) = i - 1
            /\ SumTo(count_carsqueued, Len(count_carsqueued)) = i - 1)

(* C17: the branch of line 81 is never taken: the number of parked cars   *)
(* never passes spaces + 1, the level at which arrivals are queued, and   *)
(* every counted arrival is either appended to the parked cars or added   *)
(* to the queue.                                                          *)
ArrivalPlacedClaim ==
    (TickExecuted /\ arrival' <= arrivalrate) =>
        LET n == Len(carsparked_q)
            d == IF FrontLeaves THEN 1 ELSE 0
            a == IF FrontLeaves /\ queue > 0 THEN 1 ELSE 0
            n2 == Len(carsparked_q')
        IN
        /\ count_arrivals' = count_arrivals + 1
        /\ \/ /\ n2 = n - d + a + 1
              /\ carsparked_q'[n2] = servicetime
              /\ queue' = queue - a
              /\ carsqueued' = carsqueued
           \/ /\ n2 = n - d + a
              /\ n2 = spaces + 1
              /\ queue' = queue - a + 1
              /\ carsqueued' = carsqueued + 1

OverflowUnreachable ==
    /\ [](Len(carsparked_q) - 1 <= spaces)
    /\ [][ArrivalPlacedClaim]_vars

OverflowUnreachableWitness ==
    /\ pc = "loop"
    /\ arrival >= 1
    /\ arrival <= arrivalrate
    /\ Len(carsparked_q) = spaces + 1
    /\ queue >= 2
    /\ carsparked_q[Len(carsparked_q)] < servicetime

(* C18: after every tick the remaining times of the parked cars are       *)
(* strictly increasing from front to back, each at least 1 and at most    *)
(* servicetime: no two cars expire on the same tick, no expired car stays *)
(* parked, and a car that has k ticks left was admitted servicetime - k   *)
(* ticks ago.                                                             *)
TimesStrictlyIncreasing ==
    \A k \in 1..Len(carsparked_q) :
        /\ carsparked_q[k] >= 1
        /\ carsparked_q[k] <= servicetime
        /\ (k < Len(carsparked_q) => carsparked_q[k] < carsparked_q[k + 1])

TimesStrictlyIncreasingWitness ==
    /\ pc = "loop"
    /\ Len(carsparked_q) >= 2
    /\ carsparked_q[1] = 1
    /\ carsqueued > queue
    /\ queue > 0

(* C19: whenever a car waits, the lot holds spaces + 1 cars, the number   *)
(* at which an arrival is queued instead of admitted.                     *)
QueueOnlyWhenFull ==
    queue > 0 => Len(carsparked_q) = spaces + 1

QueueOnlyWhenFullWitness ==
    /\ pc = "loop"
    /\ queue > 0
    /\ carsqueued >= queue + 2
    /\ Len(carsparked_q) = spaces + 1
    /\ arrival > arrivalrate

(* C20: in every executed tick count_arrivals grows by the growth of      *)
(* parked cars plus waiting cars plus the car that left, so arrivals =    *)
(* departed + parked + waiting; and queue <= carsqueued <= count_arrivals.*)
ConservationStep ==
    TickExecuted =>
        count_arrivals' - count_arrivals =
            (Len(carsparked_q') + queue') - (Len(carsparked_q) + queue)
                + (IF FrontLeaves THEN 1 ELSE 0)

CarsConserved ==
    /\ [][ConservationStep]_vars
    /\ [](/\ queue <= carsqueued
          /\ carsqueued <= count_arrivals
          /\ Len(carsparked_q) + queue <= count_arrivals)

CarsConservedWitness ==
    /\ pc = "loop"
    /\ queue > 0
    /\ carsqueued > queue
    /\ count_arrivals > carsqueued + Len(carsparked_q)

====
